---- MODULE Spec2Model ----
(***************************************************************************)
(* The two CRUD reconciliation adapters of the repository:                 *)
(*   azurerm_route_table           (src/azurerm/resource_arm_route_table.go)*)
(*   servicebus topic auth. rule   (src/unnamed/part_000)                  *)
(* One adapter instance is modelled per behaviour (chosen in Init).  The   *)
(* remote management API is the environment: every remote call draws its   *)
(* outcome nondeterministically, and other actors may change or delete the *)
(* remote resource between any two steps of an invocation.                 *)
(*                                                                         *)
(* Pointers are modelled as sequences: <<>> is nil, <<v>> points to v.     *)
(* Resource identifiers are sequences of path segments; "" is <<>>.        *)
(* The scalar fields location, tags, subnets and                           *)
(* disable_bgp_route_propagation are direct copies that no property below  *)
(* reads; they are left out of the local record.                           *)
(***************************************************************************)
EXTENDS Integers, Sequences, FiniteSets, TLC

VARIABLES
    adapter,     \* which resource handler this instance is
    remote,      \* the remote service's copy of the resource under the composite key
    d,           \* *schema.ResourceData: the local record
    isNew,       \* d.IsNewResource()
    op,          \* the operation the host engine invoked
    pc,          \* position inside the invocation
    result,      \* the error value the invocation returned
    callLog,     \* remote calls issued by the current invocation, with their outcomes
    request,     \* body of the last create/update request sent
    resp,        \* response of the last Get that was not the re-fetch
    read,        \* response of the post-mutation re-fetch
    keysResp,    \* response of the last ListKeys
    dAtRead,     \* the local record when Read was entered
    config,      \* the desired state the current Create-or-Update was invoked with
    interfered,  \* another actor changed the remote since the invocation began
    prev         \* record left by the immediately preceding successful Create-or-Update of the same desired state

vars == <<adapter, remote, d, isNew, op, pc, result, callLog, request, resp,
          read, keysResp, dAtRead, config, interfered, prev>>

\* Longest route list of a desired state.
MaxRoutes == 2

RouteTable == "azurerm_route_table"
TopicRule == "azurerm_servicebus_topic_authorization_rule"
Adapters == {RouteTable, TopicRule}

----------------------------------------------------------------------------
\* Pointers

Nil == <<>>
Ptr(v) == <<v>>
IsNil(p) == Len(p) = 0
Deref(p) == p[1]

----------------------------------------------------------------------------
\* Resource identifiers

RouteTableId == <<"subscriptions", "sub", "resourceGroups", "rg1", "providers",
                  "Microsoft.Network", "routeTables", "rt1">>
OtherRouteTableId == <<"subscriptions", "sub", "resourceGroups", "rg1", "providers",
                       "Microsoft.Network", "routeTables", "rt2">>
TopicRuleId == <<"subscriptions", "sub", "resourceGroups", "rg1", "providers",
                 "Microsoft.ServiceBus", "namespaces", "ns1", "topics", "t1",
                 "authorizationRules", "rule1">>
OtherTopicRuleId == <<"subscriptions", "sub", "resourceGroups", "rg1", "providers",
                      "Microsoft.ServiceBus", "namespaces", "ns1", "topics", "t1",
                      "authorizationRules", "rule2">>
MalformedId == <<"subscriptions", "sub", "resourceGroups">>
EmptyId == <<>>

\* The identifier the remote service gives the resource.
CanonicalId(a) == IF a = RouteTable THEN RouteTableId ELSE TopicRuleId

\* Identifiers a user may hand to the importer (ImportStatePassthrough).
ImportIds(a) ==
    IF a = RouteTable THEN {RouteTableId, OtherRouteTableId, MalformedId}
                      ELSE {TopicRuleId, OtherTopicRuleId, MalformedId}

\* parseAzureResourceID: key/value path segments; fails on an odd number of
\* segments or a missing subscription.
ParseOk(id) ==
    /\ Len(id) >= 2
    /\ Len(id) % 2 = 0
    /\ id[1] = "subscriptions"

\* id.Path[k] / id.ResourceGroup: the segment following k, "" when absent.
PathGet(id, k) ==
    IF \E i \in 1..(Len(id) - 1) : i % 2 = 1 /\ id[i] = k
    THEN id[(CHOOSE i \in 1..(Len(id) - 1) : i % 2 = 1 /\ id[i] = k) + 1]
    ELSE ""

\* The composite key the handlers address the remote resource by.
KeyOfConfig(a, rec) ==
    IF a = RouteTable
    THEN <<rec.resource_group_name, rec.name>>
    ELSE <<rec.resource_group_name, rec.namespace_name, rec.topic_name, rec.name>>

KeyOfId(a, id) ==
    IF a = RouteTable
    THEN <<PathGet(id, "resourceGroups"), PathGet(id, "routeTables")>>
    ELSE <<PathGet(id, "resourceGroups"), PathGet(id, "namespaces"),
           PathGet(id, "topics"), PathGet(id, "authorizationRules")>>

\* The one composite key under which the remote service may hold a resource.
RemoteKey(a) == KeyOfId(a, CanonicalId(a))

----------------------------------------------------------------------------
\* Route list translation

RouteKeys == {"name", "address_prefix", "next_hop_type", "next_hop_in_ip_address"}

\* Route entries a desired state is built from.
RouteEntries ==
    { [name |-> "r1", address_prefix |-> "10.0.0.0/16",
       next_hop_type |-> "VnetLocal", next_hop_in_ip_address |-> ""],
      [name |-> "r2", address_prefix |-> "10.1.0.0/16",
       next_hop_type |-> "VirtualAppliance", next_hop_in_ip_address |-> "10.0.0.4"] }

SeqsUpTo(S, n) == UNION { [1..k -> S] : k \in 0..n }

RouteLists == SeqsUpTo(RouteEntries, MaxRoutes)

\* d.Get("route"): every schema key is present, an unset one reads as "".
GetRouteEntry(r) == [k \in RouteKeys |-> IF k \in DOMAIN r THEN r[k] ELSE ""]
GetRoutes(rec) == [i \in 1..Len(rec.route) |-> GetRouteEntry(rec.route[i])]

ExpandNextHopIPAlways(v) == Ptr(v)
\* The optional next-hop IP of an outbound route.
ExpandNextHopIP(v) == IF v # "" THEN Ptr(v) ELSE Nil

expandRoute(data) ==
    [Name |-> Ptr(data.name),
     RoutePropertiesFormat |->
        Ptr([AddressPrefix |-> Ptr(data.address_prefix),
             NextHopType |-> data.next_hop_type,
             NextHopIPAddress |-> ExpandNextHopIP(data.next_hop_in_ip_address)])]

expandRouteTableRoutes(configs) == [i \in 1..Len(configs) |-> expandRoute(configs[i])]

\* A nil dereference inside flattenRouteTableRoutes.
FlattenPanics(input) ==
    /\ ~IsNil(input)
    /\ \E i \in 1..Len(Deref(input)) :
          LET route == Deref(input)[i] IN
          \/ IsNil(route.Name)
          \/ /\ ~IsNil(route.RoutePropertiesFormat)
             /\ IsNil(Deref(route.RoutePropertiesFormat).AddressPrefix)

flattenRoute(route) ==
    LET base == [name |-> Deref(route.Name)] IN
    IF IsNil(route.RoutePropertiesFormat) THEN base
    ELSE LET props == Deref(route.RoutePropertiesFormat)
             r == [name |-> Deref(route.Name),
                   address_prefix |-> Deref(props.AddressPrefix),
                   next_hop_type |-> props.NextHopType]
         IN IF IsNil(props.NextHopIPAddress) THEN r
            ELSE [name |-> r.name,
                  address_prefix |-> r.address_prefix,
                  next_hop_type |-> r.next_hop_type,
                  next_hop_in_ip_address |-> Deref(props.NextHopIPAddress)]

flattenRouteTableRoutesReversed(input) ==
    IF IsNil(input) THEN <<>>
    ELSE LET n == Len(Deref(input)) IN
         [i \in 1..n |-> flattenRoute(Deref(input)[n + 1 - i])]
flattenRouteTableRoutes(input) ==
    IF IsNil(input) THEN <<>>
    ELSE [i \in 1..Len(Deref(input)) |-> flattenRoute(Deref(input)[i])]

----------------------------------------------------------------------------
\* Authorization rule rights and keys

Rights == <<"Listen", "Send", "Manage">>

\* Desired rights (listen, send, manage) the schema's CustomizeDiff admits.
RightsConfigs ==
    { [listen |-> TRUE, send |-> FALSE, manage |-> FALSE],
      [listen |-> FALSE, send |-> TRUE, manage |-> FALSE],
      [listen |-> TRUE, send |-> TRUE, manage |-> TRUE] }

\* azure.ExpandServiceBusAuthorizationRuleRights
ExpandServiceBusAuthorizationRuleRights(rec) ==
    Ptr((IF rec.listen THEN <<"Listen">> ELSE <<>>)
        \o (IF rec.send THEN <<"Send">> ELSE <<>>)
        \o (IF rec.manage THEN <<"Manage">> ELSE <<>>))

\* azure.FlattenServiceBusAuthorizationRuleRights
FlattenServiceBusAuthorizationRuleRights(rights) ==
    LET has(x) == ~IsNil(rights)
                  /\ \E i \in 1..Len(Deref(rights)) : Deref(rights)[i] = x
    IN [listen |-> has("Listen"), send |-> has("Send"), manage |-> has("Manage")]

\* Key generations of the remote rule; another actor may regenerate the keys.
KeyGenerations == {"a", "b"}

\* The AccessKeys the service answers ListKeys with.
AccessKeys(g) ==
    [PrimaryKey |-> Ptr("pk-" \o g),
     PrimaryConnectionString |-> Ptr("pcs-" \o g),
     SecondaryKey |-> Ptr("sk-" \o g),
     SecondaryConnectionString |-> Ptr("scs-" \o g)]

NoKeys ==
    [PrimaryKey |-> Nil, PrimaryConnectionString |-> Nil,
     SecondaryKey |-> Nil, SecondaryConnectionString |-> Nil]

----------------------------------------------------------------------------
\* The remote service

Absent == [present |-> FALSE, props |-> Nil, keys |-> ""]

\* Route lists another actor may have stored: a route with every field, a
\* route without properties, and a route without a name.
ForeignRoutes ==
    { << [Name |-> Ptr("r8"),
          RoutePropertiesFormat |->
              Ptr([AddressPrefix |-> Ptr("10.8.0.0/16"),
                   NextHopType |-> "VirtualAppliance",
                   NextHopIPAddress |-> Ptr("10.8.0.4")])] >>,
      << [Name |-> Ptr("r9"), RoutePropertiesFormat |-> Nil] >>,
      << [Name |-> Nil, RoutePropertiesFormat |-> Nil] >> }

\* Properties another actor may have stored under the composite key.
ForeignProps(a) ==
    IF a = RouteTable
    THEN { Nil, Ptr([Routes |-> Nil]) }
         \cup { Ptr([Routes |-> Ptr(rs)]) : rs \in ForeignRoutes }
    ELSE { Nil, Ptr([Rights |-> Nil]), Ptr([Rights |-> Ptr(<<"Listen">>)]),
           Ptr([Rights |-> Ptr(<<"Send", "Listen">>)]) }

\* The zero-valued response the SDK returns with an error.
ZeroResponse == [ID |-> Nil, props |-> Nil]

\* Outcomes of a Get by composite key.
GetOutcomes(key) ==
    IF remote.present /\ key = RemoteKey(adapter)
    THEN {"ok", "noid", "error"}
    ELSE {"notfound", "error"}

GetResponse(out) ==
    CASE out = "ok" -> [ID |-> Ptr(CanonicalId(adapter)), props |-> remote.props]
      [] out = "noid" -> [ID |-> Nil, props |-> remote.props]
      [] OTHER -> ZeroResponse

----------------------------------------------------------------------------
\* Error values

NoError == [kind |-> "nil", msg |-> "", name |-> "", group |-> ""]
\* fmt.Errorf around the underlying error, with the context it names.
Errorf(msg, name, group) == [kind |-> "wrapped", msg |-> msg, name |-> name, group |-> group]
\* return err
BareError == [kind |-> "bare", msg |-> "", name |-> "", group |-> ""]
\* tf.ImportAsExistsError(resourceName, id)
ImportAsExistsError(resourceName) ==
    [kind |-> "import", msg |-> resourceName, name |-> "", group |-> ""]
\* fmt.Errorf("Cannot read ... ID")
CannotReadIdError(name, group) ==
    [kind |-> "noid", msg |-> "Cannot read ID", name |-> name, group |-> group]
\* A nil pointer dereference ends the invocation.
Panic == [kind |-> "panic", msg |-> "nil pointer dereference", name |-> "", group |-> ""]

----------------------------------------------------------------------------
\* The local record

BlankRecord(a) ==
    IF a = RouteTable
    THEN [id |-> EmptyId, name |-> "", resource_group_name |-> "", route |-> <<>>]
    ELSE [id |-> EmptyId, name |-> "", namespace_name |-> "", topic_name |-> "",
          resource_group_name |-> "",
          listen |-> FALSE, send |-> FALSE, manage |-> FALSE,
          primary_key |-> "", primary_connection_string |-> "",
          secondary_key |-> "", secondary_connection_string |-> ""]

\* Desired states the host engine may invoke Create-or-Update with.
Configs(a) ==
    IF a = RouteTable
    THEN { [name |-> "rt1", resource_group_name |-> "rg1", route |-> l] : l \in RouteLists }
    ELSE { [name |-> "rule1", namespace_name |-> "ns1", topic_name |-> "t1",
            resource_group_name |-> "rg1",
            listen |-> r.listen, send |-> r.send, manage |-> r.manage] : r \in RightsConfigs }

\* The record the host engine hands to Create-or-Update: prior state
\* overlaid with the desired state.
ApplyConfig(a, rec, cfg) ==
    IF a = RouteTable
    THEN [rec EXCEPT !.name = cfg.name, !.resource_group_name = cfg.resource_group_name,
                     !.route = cfg.route]
    ELSE [rec EXCEPT !.name = cfg.name, !.namespace_name = cfg.namespace_name,
                     !.topic_name = cfg.topic_name,
                     !.resource_group_name = cfg.resource_group_name,
                     !.listen = cfg.listen, !.send = cfg.send, !.manage = cfg.manage]

NoPrev == [valid |-> FALSE, config |-> <<>>, d |-> <<>>]

\* What a Create-or-Update invoked with desired state cfg keeps of the
\* invocation that just ended: its record, when that invocation was a
\* successful, undisturbed Create-or-Update with the same desired state.
Snapshot(cfg) ==
    IF /\ op = "CreateUpdate" /\ pc = "done" /\ result = NoError
       /\ ~interfered /\ d.id # EmptyId /\ config = cfg
    THEN [valid |-> TRUE, config |-> config, d |-> d]
    ELSE NoPrev

Idle == pc \in {"idle", "done"}

Logged(step, out) == Append(callLog, [step |-> step, out |-> out])

\* The request body Create-or-Update builds from the record.
RequestBody(a, rec) ==
    IF a = RouteTable
    THEN [Name |-> Ptr(rec.name),
          props |-> Ptr([Routes |-> Ptr(expandRouteTableRoutes(GetRoutes(rec)))])]
    ELSE [Name |-> Ptr(rec.name),
          props |-> Ptr([Rights |-> ExpandServiceBusAuthorizationRuleRights(rec)])]

\* The remote resource after the service accepted a create/update request.
Stored(a, body) ==
    [present |-> TRUE,
     props |-> body.props,
     keys |-> IF a = RouteTable THEN ""
              ELSE IF remote.present THEN remote.keys ELSE "a"]

----------------------------------------------------------------------------
\* Entering Read: the identifier is parsed before any remote call.

ReadEntryPc(id) == IF ParseOk(id) THEN "rd_get" ELSE "done"
ReadEntryResult(id) == IF ParseOk(id) THEN NoError ELSE BareError

----------------------------------------------------------------------------
\* Host engine invocations

NeedsProbeAlways(new) == TRUE
\* if d.IsNewResource()
NeedsProbe(new) == new

\* Create: a fresh record, marked new.
BeginCreate ==
    /\ Idle
    /\ \E cfg \in Configs(adapter) :
         /\ config' = cfg
         /\ d' = ApplyConfig(adapter, BlankRecord(adapter), cfg)
         /\ prev' = Snapshot(cfg)
    /\ isNew' = TRUE
    /\ op' = "CreateUpdate"
    /\ pc' = IF NeedsProbe(TRUE) THEN "cu_probe" ELSE "cu_put"
    /\ result' = NoError
    /\ callLog' = <<>>
    /\ resp' = ZeroResponse /\ read' = ZeroResponse /\ keysResp' = NoKeys
    /\ request' = <<>>
    /\ dAtRead' = d'
    /\ interfered' = FALSE
    /\ UNCHANGED <<adapter, remote>>

\* Update: the record of a resource the engine already tracks.
BeginUpdate ==
    /\ Idle
    /\ d.id # EmptyId
    /\ \E cfg \in Configs(adapter) :
         /\ config' = cfg
         /\ d' = ApplyConfig(adapter, d, cfg)
         /\ prev' = Snapshot(cfg)
    /\ isNew' = FALSE
    /\ op' = "CreateUpdate"
    /\ pc' = IF NeedsProbe(FALSE) THEN "cu_probe" ELSE "cu_put"
    /\ result' = NoError
    /\ callLog' = <<>>
    /\ resp' = ZeroResponse /\ read' = ZeroResponse /\ keysResp' = NoKeys
    /\ request' = <<>>
    /\ dAtRead' = d'
    /\ interfered' = FALSE
    /\ UNCHANGED <<adapter, remote>>

\* Read as a refresh of a tracked resource.
BeginRefresh ==
    /\ Idle
    /\ d.id # EmptyId
    /\ isNew' = FALSE
    /\ op' = "Read"
    /\ pc' = ReadEntryPc(d.id)
    /\ result' = ReadEntryResult(d.id)
    /\ callLog' = <<>>
    /\ resp' = ZeroResponse /\ read' = ZeroResponse /\ keysResp' = NoKeys
    /\ dAtRead' = d
    /\ request' = <<>> /\ config' = <<>>
    /\ interfered' = FALSE
    /\ prev' = NoPrev
    /\ UNCHANGED <<adapter, remote, d>>

\* Read after an import: a blank record carrying the identifier the user gave.
BeginImport ==
    /\ Idle
    /\ \E id \in ImportIds(adapter) :
         /\ d' = [BlankRecord(adapter) EXCEPT !.id = id]
         /\ pc' = ReadEntryPc(id)
         /\ result' = ReadEntryResult(id)
    /\ isNew' = FALSE
    /\ op' = "Read"
    /\ callLog' = <<>>
    /\ resp' = ZeroResponse /\ read' = ZeroResponse /\ keysResp' = NoKeys
    /\ dAtRead' = d'
    /\ request' = <<>> /\ config' = <<>>
    /\ interfered' = FALSE
    /\ prev' = NoPrev
    /\ UNCHANGED <<adapter, remote>>

\* Delete of a tracked resource; the identifier is parsed first.
BeginDelete ==
    /\ Idle
    /\ d.id # EmptyId
    /\ isNew' = FALSE
    /\ op' = "Delete"
    /\ pc' = IF ParseOk(d.id) THEN "del_call" ELSE "done"
    /\ result' = IF ParseOk(d.id) THEN NoError ELSE BareError
    /\ callLog' = <<>>
    /\ resp' = ZeroResponse /\ read' = ZeroResponse /\ keysResp' = NoKeys
    /\ dAtRead' = d
    /\ request' = <<>> /\ config' = <<>>
    /\ interfered' = FALSE
    /\ prev' = NoPrev
    /\ UNCHANGED <<adapter, remote, d>>

----------------------------------------------------------------------------
\* Create-or-Update

Failed(out) == out \in {"notfound", "error"}

ProbeVerdictAdopt(out, r) == IF out = "error" THEN "generic" ELSE "proceed"
\* The existence probe's decision: a failure other than not-found is fatal,
\* a resource with an ID requires import, anything else lets the create go on.
ProbeVerdict(out, r) ==
    IF Failed(out) /\ out # "notfound" THEN "generic"
    ELSE IF ~IsNil(r.ID) THEN "import"
    ELSE "proceed"

ProbeError(a, rec) ==
    IF a = RouteTable
    THEN Errorf("Error checking for the existence of Route Table",
                rec.name, rec.resource_group_name)
    ELSE Errorf("Error checking for the existence of Service Bus Topic Rule",
                rec.name, rec.resource_group_name)

ImportError(a) ==
    IF a = RouteTable
    THEN ImportAsExistsError("azurerm_route_table")
    ELSE ImportAsExistsError("azurerm_servicebus_subscription_rule")

CU_Probe ==
    /\ pc = "cu_probe"
    /\ \E out \in GetOutcomes(KeyOfConfig(adapter, d)) :
         LET r == GetResponse(out)
             v == ProbeVerdict(out, r)
         IN /\ callLog' = Logged("probe", out)
            /\ resp' = r
            /\ pc' = IF v = "proceed" THEN "cu_put" ELSE "done"
            /\ result' = CASE v = "generic" -> ProbeError(adapter, d)
                            [] v = "import" -> ImportError(adapter)
                            [] OTHER -> NoError
    /\ UNCHANGED <<adapter, remote, d, isNew, op, request, read, keysResp,
                   dAtRead, config, interfered, prev>>

PutError(a, rec) ==
    IF a = RouteTable
    THEN Errorf("Error Creating/Updating Route Table", rec.name, rec.resource_group_name)
    ELSE Errorf("Error creating/updating ServiceBus Topic Authorization Rule",
                rec.name, rec.resource_group_name)

AfterPutNoWait(a) == "cu_refetch"
\* The route table waits on the returned future; the authorization rule's
\* call is synchronous and is followed at once by the re-fetch.
AfterPut(a) == IF a = RouteTable THEN "cu_wait" ELSE "cu_refetch"

CU_Put ==
    /\ pc = "cu_put"
    /\ request' = RequestBody(adapter, d)
    /\ \E out \in {"ok", "error"} :
         /\ callLog' = Logged("put", out)
         /\ remote' = IF out = "ok" THEN Stored(adapter, request') ELSE remote
         /\ pc' = IF out = "ok" THEN AfterPut(adapter) ELSE "done"
         /\ result' = IF out = "ok" THEN NoError ELSE PutError(adapter, d)
    /\ UNCHANGED <<adapter, d, isNew, op, resp, read, keysResp, dAtRead,
                   config, interfered, prev>>

\* future.WaitForCompletionRef (route table only)
CU_Wait ==
    /\ pc = "cu_wait"
    /\ \E out \in {"ok", "error"} :
         /\ callLog' = Logged("wait", out)
         /\ pc' = IF out = "ok" THEN "cu_refetch" ELSE "done"
         /\ result' = IF out = "ok" THEN NoError
                       ELSE Errorf("Error waiting for completion of Route Table",
                                   d.name, d.resource_group_name)
    /\ UNCHANGED <<adapter, remote, d, isNew, op, request, resp, read, keysResp,
                   dAtRead, config, interfered, prev>>

\* The re-fetch, d.SetId(*read.ID), and the entry into Read.
CU_Refetch ==
    /\ pc = "cu_refetch"
    /\ \E out \in GetOutcomes(KeyOfConfig(adapter, d)) :
         LET r == GetResponse(out) IN
         /\ callLog' = Logged("refetch", out)
         /\ read' = r
         /\ IF Failed(out)
            THEN /\ pc' = "done" /\ result' = BareError
                 /\ UNCHANGED <<d, dAtRead>>
            ELSE IF IsNil(r.ID)
            THEN /\ pc' = "done"
                 /\ result' = CannotReadIdError(d.name, d.resource_group_name)
                 /\ UNCHANGED <<d, dAtRead>>
            ELSE /\ d' = [d EXCEPT !.id = Deref(r.ID)]
                 /\ dAtRead' = d'
                 /\ pc' = ReadEntryPc(Deref(r.ID))
                 /\ result' = ReadEntryResult(Deref(r.ID))
    /\ UNCHANGED <<adapter, remote, isNew, op, request, resp, keysResp,
                   config, interfered, prev>>

----------------------------------------------------------------------------
\* Read

ReadGetVerdictStrict(out) == IF Failed(out) THEN "fail" ELSE "set"
\* Not-found clears the identifier; any other failure is fatal.
ReadGetVerdict(out) ==
    IF Failed(out)
    THEN IF out = "notfound" THEN "gone" ELSE "fail"
    ELSE "set"

ReadError(a, name) ==
    IF a = RouteTable
    THEN Errorf("Error making Read request on Azure Route Table", name, "")
    ELSE Errorf("Error making Read request on Azure ServiceBus Topic Authorization Rule",
                name, "")

\* The fields Read sets from a successful Get, up to the next remote call.
ReadFields(a, rec, r) ==
    IF a = RouteTable
    THEN LET named == [rec EXCEPT !.name = PathGet(rec.id, "routeTables"),
                                  !.resource_group_name = PathGet(rec.id, "resourceGroups")]
         IN IF IsNil(r.props) \/ FlattenPanics(Deref(r.props).Routes) THEN named
            ELSE [named EXCEPT !.route = flattenRouteTableRoutes(Deref(r.props).Routes)]
    ELSE LET named == [rec EXCEPT !.name = PathGet(rec.id, "authorizationRules"),
                                  !.topic_name = PathGet(rec.id, "topics"),
                                  !.namespace_name = PathGet(rec.id, "namespaces"),
                                  !.resource_group_name = PathGet(rec.id, "resourceGroups")]
         IN IF IsNil(r.props) THEN named
            ELSE LET f == FlattenServiceBusAuthorizationRuleRights(Deref(r.props).Rights)
                 IN [named EXCEPT !.listen = f.listen, !.send = f.send, !.manage = f.manage]

ReadPanics(a, r) ==
    a = RouteTable /\ ~IsNil(r.props) /\ FlattenPanics(Deref(r.props).Routes)

RD_Get ==
    /\ pc = "rd_get"
    /\ \E out \in GetOutcomes(KeyOfId(adapter, d.id)) :
         LET r == GetResponse(out)
             v == ReadGetVerdict(out)
         IN /\ callLog' = Logged("get", out)
            /\ resp' = r
            /\ CASE v = "gone" ->
                     /\ d' = [d EXCEPT !.id = EmptyId]
                     /\ pc' = "done" /\ result' = NoError
                 [] v = "fail" ->
                     /\ d' = d
                     /\ pc' = "done"
                     /\ result' = ReadError(adapter, KeyOfId(adapter, d.id)[Len(KeyOfId(adapter, d.id))])
                 [] OTHER ->
                     /\ d' = ReadFields(adapter, d, r)
                     /\ pc' = IF adapter = TopicRule THEN "rd_keys" ELSE "done"
                     /\ result' = IF ReadPanics(adapter, r) THEN Panic ELSE NoError
    /\ UNCHANGED <<adapter, remote, isNew, op, request, read, keysResp, dAtRead,
                   config, interfered, prev>>

SecretsSwapped(k) ==
    [primary_key |-> Deref(k.SecondaryKey),
     primary_connection_string |-> Deref(k.PrimaryConnectionString),
     secondary_key |-> Deref(k.PrimaryKey),
     secondary_connection_string |-> Deref(k.SecondaryConnectionString)]
\* The four secret fields Read sets from the ListKeys response.
Secrets(k) ==
    [primary_key |-> Deref(k.PrimaryKey),
     primary_connection_string |-> Deref(k.PrimaryConnectionString),
     secondary_key |-> Deref(k.SecondaryKey),
     secondary_connection_string |-> Deref(k.SecondaryConnectionString)]

\* Outcomes of ListKeys: it fails when the rule is gone.
ListKeysOutcomes(key) ==
    IF remote.present /\ key = RemoteKey(adapter) THEN {"ok", "error"} ELSE {"notfound", "error"}

RD_ListKeys ==
    /\ pc = "rd_keys"
    /\ \E out \in ListKeysOutcomes(KeyOfId(adapter, d.id)) :
         /\ callLog' = Logged("listkeys", out)
         /\ pc' = "done"
         /\ IF Failed(out)
            THEN /\ result' = Errorf("Error making Read request on Azure ServiceBus Topic Authorization Rule List Keys",
                                     PathGet(d.id, "authorizationRules"), "")
                 /\ UNCHANGED <<d, keysResp>>
            ELSE /\ keysResp' = AccessKeys(remote.keys)
                 /\ d' = LET sec == Secrets(keysResp') IN
                         [d EXCEPT !.primary_key = sec.primary_key,
                                   !.primary_connection_string = sec.primary_connection_string,
                                   !.secondary_key = sec.secondary_key,
                                   !.secondary_connection_string = sec.secondary_connection_string]
                 /\ result' = NoError
    /\ UNCHANGED <<adapter, remote, isNew, op, request, resp, read, dAtRead,
                   config, interfered, prev>>

----------------------------------------------------------------------------
\* Delete

\* Outcomes of the remote delete call; the service answers an absent
\* resource with not-found or with an empty success.
DeleteOutcomes(key) ==
    IF remote.present /\ key = RemoteKey(adapter)
    THEN {"ok", "error"}
    ELSE {"notfound", "ok", "error"}

DeleteVerdictTolerant(a, out) ==
    IF out = "error" THEN "fail"
    ELSE IF a = RouteTable THEN "wait" ELSE "return"
\* The route table tolerates not-found and goes on to wait on the future;
\* the authorization rule fails on every error of the delete call.
DeleteVerdict(a, out) ==
    IF a = RouteTable
    THEN IF Failed(out) /\ out # "notfound" THEN "fail" ELSE "wait"
    ELSE IF Failed(out) THEN "fail" ELSE "return"

DeleteError(a, id) ==
    IF a = RouteTable
    THEN Errorf("Error deleting Route Table",
                PathGet(id, "routeTables"), PathGet(id, "resourceGroups"))
    ELSE Errorf("Error issuing Azure ARM delete request of ServiceBus Topic Authorization Rule",
                PathGet(id, "authorizationRules"), PathGet(id, "resourceGroups"))

DEL_Call ==
    /\ pc = "del_call"
    /\ \E out \in DeleteOutcomes(KeyOfId(adapter, d.id)) :
         LET v == DeleteVerdict(adapter, out) IN
         /\ callLog' = Logged("delete", out)
         /\ remote' = IF out = "ok" /\ KeyOfId(adapter, d.id) = RemoteKey(adapter)
                       THEN Absent ELSE remote
         /\ pc' = IF v = "wait" THEN "del_wait" ELSE "done"
         /\ result' = IF v = "fail" THEN DeleteError(adapter, d.id) ELSE NoError
    /\ UNCHANGED <<adapter, d, isNew, op, request, resp, read, keysResp, dAtRead,
                   config, interfered, prev>>

\* future.WaitForCompletionRef (route table only).  After a tolerated
\* not-found the future belongs to a request that failed; whether waiting on
\* it succeeds depends on the SDK build, so both outcomes are possible.
DEL_Wait ==
    /\ pc = "del_wait"
    /\ \E out \in {"ok", "error"} :
         /\ callLog' = Logged("delwait", out)
         /\ pc' = "done"
         /\ result' = IF out = "ok" THEN NoError
                       ELSE Errorf("Error waiting for deletion of Route Table",
                                   PathGet(d.id, "routeTables"), PathGet(d.id, "resourceGroups"))
    /\ UNCHANGED <<adapter, remote, d, isNew, op, request, resp, read, keysResp,
                   dAtRead, config, interfered, prev>>

----------------------------------------------------------------------------
\* Other actors on the remote service, at any moment

EnvDelete ==
    /\ remote.present
    /\ remote' = Absent
    /\ interfered' = TRUE
    /\ prev' = NoPrev
    /\ UNCHANGED <<adapter, d, isNew, op, pc, result, callLog, request, resp, read,
                   keysResp, dAtRead, config>>

EnvPut ==
    /\ \E p \in ForeignProps(adapter) :
       \E g \in (IF adapter = TopicRule THEN KeyGenerations ELSE {""}) :
         /\ remote' = [present |-> TRUE, props |-> p, keys |-> g]
         /\ remote' # remote
    /\ interfered' = TRUE
    /\ prev' = NoPrev
    /\ UNCHANGED <<adapter, d, isNew, op, pc, result, callLog, request, resp, read,
                   keysResp, dAtRead, config>>

----------------------------------------------------------------------------

Init ==
    /\ adapter \in Adapters
    /\ remote = Absent
    /\ d = BlankRecord(adapter)
    /\ isNew = FALSE
    /\ op = "none"
    /\ pc = "idle"
    /\ result = NoError
    /\ callLog = <<>>
    /\ request = <<>>
    /\ resp = ZeroResponse
    /\ read = ZeroResponse
    /\ keysResp = NoKeys
    /\ dAtRead = BlankRecord(adapter)
    /\ config = <<>>
    /\ interfered = FALSE
    /\ prev = NoPrev

Next ==
    \/ BeginCreate
    \/ BeginUpdate
    \/ BeginRefresh
    \/ BeginImport
    \/ BeginDelete
    \/ CU_Probe
    \/ CU_Put
    \/ CU_Wait
    \/ CU_Refetch
    \/ RD_Get
    \/ RD_ListKeys
    \/ DEL_Call
    \/ DEL_Wait
    \/ EnvDelete
    \/ EnvPut

Spec == Init /\ [][Next]_vars

----------------------------------------------------------------------------
\* Vocabulary of the properties

Done == pc = "done"
Steps == [i \in 1..Len(callLog) |-> callLog[i].step]
HasStep(s) == \E i \in 1..Len(callLog) : callLog[i].step = s
HasOut(s, o) == \E i \in 1..Len(callLog) : callLog[i].step = s /\ callLog[i].out = o
\* The step answered without an error value (err == nil).
Answered(s) == HasOut(s, "ok") \/ HasOut(s, "noid")
IsPrefix(s, t) == Len(s) =< Len(t) /\ \A i \in 1..Len(s) : s[i] = t[i]
\* Every remote call of the invocation answered with the resource and no failure.
AllAnswered == \A i \in 1..Len(callLog) : callLog[i].out = "ok"

----------------------------------------------------------------------------
\* C1: for both adapters, a Create-or-Update of a new resource whose existence
\* probe returns a resource with a non-nil ID ends at once with the
\* import-conflict error, with no create/update call and the identifier left
\* unset; a probe failing with anything but not-found ends it at once with a
\* generic wrapped error and no create/update call.
C1_ProbeConflict ==
    (op = "CreateUpdate" /\ isNew /\ HasStep("probe")) =>
        /\ HasOut("probe", "ok") =>
             /\ Done /\ result.kind = "import"
             /\ ~HasStep("put") /\ Len(callLog) = 1
             /\ d.id = EmptyId
        /\ HasOut("probe", "error") =>
             /\ Done /\ result.kind = "wrapped"
             /\ ~HasStep("put") /\ Len(callLog) = 1

C1_Witness ==
    /\ Done /\ op = "CreateUpdate" /\ isNew
    /\ HasOut("probe", "ok") /\ ~IsNil(resp.ID)
    /\ result.kind = "import"

\* C2: for both adapters, a Delete whose remote delete call answers not-found
\* returns success, and a Delete that reached the remote call returns an error
\* only when that call failed for another reason or the wait failed.
C2_DeleteAbsentSucceeds ==
    (Done /\ op = "Delete" /\ Len(callLog) > 0) =>
        /\ (HasOut("delete", "notfound") /\ ~HasOut("delwait", "error")) => result = NoError
        /\ result # NoError => (HasOut("delete", "error") \/ HasOut("delwait", "error"))

\* C3: for both adapters, when the Get of Read answers not-found, Read ends at
\* once with no error, the identifier cleared, no other field written and no
\* further remote call; when it fails otherwise, Read ends at once with an
\* error and the record, identifier included, as it was on entry.
C3_ReadNotFound ==
    /\ HasOut("get", "notfound") =>
         /\ Done /\ result = NoError
         /\ d = [dAtRead EXCEPT !.id = EmptyId]
         /\ callLog[Len(callLog)].step = "get"
         /\ ~HasStep("listkeys")
    /\ HasOut("get", "error") =>
         /\ Done /\ result.kind # "nil"
         /\ d = dAtRead
         /\ callLog[Len(callLog)].step = "get"

C3_Witness ==
    /\ Done /\ op = "Read" /\ HasOut("get", "notfound")
    /\ dAtRead.id = CanonicalId(adapter) /\ dAtRead.name # ""
    /\ d.id = EmptyId /\ result = NoError

----------------------------------------------------------------------------
\* C4 as stated: a Create-or-Update that directly follows a successful one
\* with the same desired state, with no other actor and no failing call,
\* succeeds, leaves one remote resource and leaves the record equal to the one
\* the first left, whether entered as Create or as Update.
C4_IdempotentEitherEntry ==
    (Done /\ op = "CreateUpdate" /\ prev.valid /\ ~interfered /\ AllAnswered) =>
        /\ result = NoError
        /\ d = prev.d
        /\ remote.present
        /\ Cardinality({i \in 1..Len(callLog) : callLog[i].step = "put"}) = 1

\* C4 amended: the same holds when the second invocation is entered as Update;
\* entered as Create it ends with the import-conflict error, issues no
\* create/update call and leaves the one remote resource in place.
C4_IdempotentUpdate ==
    (Done /\ op = "CreateUpdate" /\ prev.valid /\ ~interfered /\ AllAnswered) =>
        IF ~isNew
        THEN /\ result = NoError
             /\ d = prev.d
             /\ remote.present
             /\ Cardinality({i \in 1..Len(callLog) : callLog[i].step = "put"}) = 1
        ELSE /\ result.kind = "import"
             /\ ~HasStep("put")
             /\ remote.present

C4_Witness ==
    /\ Done /\ op = "CreateUpdate" /\ prev.valid /\ ~interfered /\ AllAnswered
    /\ ~isNew /\ result = NoError /\ d = prev.d /\ HasStep("put")

----------------------------------------------------------------------------
\* The flattened list has the length and order of the desired list and, entry
\* by entry, its name, address_prefix and next_hop_type, and its
\* next_hop_in_ip_address when that was non-empty.
RoundTrips(configs, flat) ==
    /\ Len(flat) = Len(configs)
    /\ \A i \in 1..Len(configs) :
         /\ {"name", "address_prefix", "next_hop_type"} \subseteq DOMAIN flat[i]
         /\ flat[i].name = configs[i].name
         /\ flat[i].address_prefix = configs[i].address_prefix
         /\ flat[i].next_hop_type = configs[i].next_hop_type
         /\ configs[i].next_hop_in_ip_address # "" =>
              /\ "next_hop_in_ip_address" \in DOMAIN flat[i]
              /\ flat[i].next_hop_in_ip_address = configs[i].next_hop_in_ip_address

\* C5: flattening the routes of every request the route table handler sent
\* gives back the desired route list, and a successful, undisturbed
\* Create-or-Update leaves exactly the desired routes in the record.
C5_RouteRoundTrip ==
    adapter = RouteTable =>
        /\ HasStep("put") =>
             RoundTrips(config.route, flattenRouteTableRoutes(Deref(request.props).Routes))
        /\ (Done /\ op = "CreateUpdate" /\ result = NoError /\ ~interfered /\ d.id # EmptyId) =>
             RoundTrips(config.route, d.route)

C5_Witness ==
    /\ adapter = RouteTable /\ Done /\ op = "CreateUpdate" /\ result = NoError
    /\ ~interfered /\ d.id # EmptyId
    /\ Len(config.route) = 2 /\ config.route[1] # config.route[2]
    /\ Len(d.route) = 2

\* C6: an outbound route carries a next-hop IP pointer exactly when the desired
\* entry's next_hop_in_ip_address is non-empty (and then points to it), and a
\* record flattened from a response has the key next_hop_in_ip_address exactly
\* for the routes whose next-hop IP pointer is non-nil.
C6_OptionalNextHop ==
    adapter = RouteTable =>
        /\ HasStep("put") =>
             LET sent == Deref(Deref(request.props).Routes) IN
             /\ Len(sent) = Len(config.route)
             /\ \A i \in 1..Len(sent) :
                  LET ip == Deref(sent[i].RoutePropertiesFormat).NextHopIPAddress IN
                  /\ ~IsNil(ip) <=> config.route[i].next_hop_in_ip_address # ""
                  /\ ~IsNil(ip) => Deref(ip) = config.route[i].next_hop_in_ip_address
        /\ (Done /\ Answered("get") /\ result = NoError /\ ~IsNil(resp.props)
                 /\ ~IsNil(Deref(resp.props).Routes)) =>
             LET got == Deref(Deref(resp.props).Routes) IN
             /\ Len(d.route) = Len(got)
             /\ \A i \in 1..Len(got) :
                  "next_hop_in_ip_address" \in DOMAIN d.route[i]
                    <=> /\ ~IsNil(got[i].RoutePropertiesFormat)
                        /\ ~IsNil(Deref(got[i].RoutePropertiesFormat).NextHopIPAddress)

C6_Witness ==
    /\ adapter = RouteTable /\ Done /\ op = "CreateUpdate" /\ result = NoError
    /\ HasStep("put") /\ Answered("get")
    /\ Len(config.route) = 2
    /\ config.route[1].next_hop_in_ip_address = ""
    /\ config.route[2].next_hop_in_ip_address # ""
    /\ Len(d.route) = 2
    /\ "next_hop_in_ip_address" \notin DOMAIN d.route[1]
    /\ "next_hop_in_ip_address" \in DOMAIN d.route[2]

----------------------------------------------------------------------------
\* The remote calls of one Create-or-Update, in the order the handler issues them.
CallOrder(a, new, withWait) ==
    (IF new THEN <<"probe">> ELSE <<>>)
    \o <<"put">>
    \o (IF withWait THEN <<"wait">> ELSE <<>>)
    \o <<"refetch", "get">>
    \o (IF a = TopicRule THEN <<"listkeys">> ELSE <<>>)

\* Calls follow the given order, each after its predecessor returned without a
\* fatal error; the identifier is the one the invocation was entered with until
\* the re-fetch returned an ID, and is that ID when Read is entered.
OrderedCalls(expected) ==
    op = "CreateUpdate" =>
        /\ IsPrefix(Steps, expected)
        /\ \A i \in 1..(Len(callLog) - 1) :
             \/ callLog[i].out \in {"ok", "noid"}
             \/ callLog[i].step = "probe" /\ callLog[i].out = "notfound"
        /\ Cardinality({i \in 1..Len(callLog) : callLog[i].step = "put"}) =< 1
        /\ ~HasOut("refetch", "ok") => d.id = dAtRead.id
        /\ pc = "rd_get" => (~IsNil(read.ID) /\ d.id = Deref(read.ID))

\* C7 as stated: both adapters issue existence check (new resources only),
\* create/update, wait for completion, re-fetch, Read, in that order.
C7_OrderWithWait == OrderedCalls(CallOrder(adapter, isNew, TRUE))

\* C7 amended: the route table issues existence check (new resources only),
\* create/update, wait, re-fetch, Read; the authorization rule issues no wait:
\* its create/update call is synchronous and the re-fetch follows it directly.
C7_Order == OrderedCalls(CallOrder(adapter, isNew, adapter = RouteTable))

C7_Witness ==
    /\ Done /\ op = "CreateUpdate" /\ isNew /\ result = NoError
    /\ adapter = TopicRule
    /\ Steps = <<"probe", "put", "refetch", "get", "listkeys">>
    /\ d.id = TopicRuleId

----------------------------------------------------------------------------
\* A failure the handlers do not tolerate.
Fatal(e) ==
    /\ e.out \in {"notfound", "error"}
    /\ ~(e.out = "notfound" /\ e.step \in {"probe", "get", "delete"})

\* C8: every failure of a remote call or wait that is not a tolerated not-found
\* ends the invocation at once, with no further remote call, and the error
\* returned is wrapped with the resource name and the resource group.
C8_FailuresWrapped ==
    \A i \in 1..Len(callLog) :
        Fatal(callLog[i]) =>
            /\ i = Len(callLog) /\ Done
            /\ result.kind = "wrapped"
            /\ result.msg # "" /\ result.name # "" /\ result.group # ""

----------------------------------------------------------------------------
----------------------------------------------------------------------------
\* C10: whenever Create-or-Update returns success, the identifier is non-empty
\* and is the ID the re-fetch returned.
C10_SuccessHasId ==
    (Done /\ op = "CreateUpdate" /\ result = NoError) =>
        /\ d.id # EmptyId
        /\ ~IsNil(read.ID)
        /\ d.id = Deref(read.ID)

====
